---- MODULE Spec2Model ----
\* Model of larch.lib.cache: the LIRS replacement policy (LIRSStack), the
\* LIRSCache mapping built on it, and the size-weighted LRUCache.
\* Model of larch.lib.gevent: MultiLock and the bounded Queue, each used by
\* greenlets that gevent schedules cooperatively.
EXTENDS Integers, Sequences, FiniteSets, TLC

\* ---------------------------------------------------------------- bounds
MaxLirs == 2
MaxHirs == 2
NumKeys == 4
NumValues == 2
MaxMaxSize == 3
MaxMinCount == 2
NumGreenlets == 3
MaxMaxLen == 2
NumTypes == 2
MaxStyleParts == 2
NumAdapters == 2

Keys == 1..NumKeys
Values == 1..NumValues
\* the keys of the workload that stores distinguishable values
ValueKeys == 1..(NumKeys - 1)

\* ------------------------------------------------------ program constants
\* "0 is lirs status", "1 is hirs status"; None is Python's None (no key, no
\* status, no value).
LIR == 0
HIR == 1
None == -1
\* the item the tests store under every key (True)
True == 1
\* adapter.py's _THROW_EXCEPTION: no default given, no adapter found
THROW_EXCEPTION == -2

VARIABLES
    lirs,      \* LIRSStack.lirs
    hirs,      \* LIRSStack.hirs
    s,         \* LIRSStack.s : OrderedDict key -> status, oldest first
    q,         \* LIRSStack.q : OrderedDict key -> True, oldest first
    data,      \* LIRSCache._data : dict key -> value
    gen,       \* the live LIRSStack.evict() generator: where it is suspended
    last,      \* the last call's outcome: the key it returned, whether it raised
    lastSet,   \* history: value last set for a key and not removed since
    step,      \* position in the reference script (None when not on it)
    max_size,  \* LRUCache._max_size
    min_count, \* LRUCache._min_count
    sizeof,    \* LRUCache.sizeof : value -> size
    d,         \* LRUCache._d : OrderedDict key -> value, oldest first
    size,      \* LRUCache._size
    removed,   \* the (key, value) calls of _remove_callback in the last call
    raised,    \* whether the last LRUCache call raised KeyError
    recent,    \* history: the stored keys, least recently set or read first
    locks,     \* MultiLock.locks : dict id -> _LockType (cause, count)
    lockers,   \* the greenlets using the MultiLock: position, cause, ids
    qdata,     \* Queue.data : deque, oldest first
    maxlen,    \* Queue.maxlen
    can_put,   \* Queue.can_put : the flag of the Event
    can_get,   \* Queue.can_get : the flag of the Event
    tasks,     \* the greenlets using the Queue: position, object to put
    values,    \* Registry.values : dict key -> adapter or _THROW_EXCEPTION
    registered,\* Registry.registered : dict key -> adapter
    result     \* what the last Registry call returned, or that it raised

lirsVars == <<lirs, hirs, s, q, data, gen, last, lastSet, step>>
lruVars == <<max_size, min_count, sizeof, d, size, removed, raised, recent>>
lockVars == <<locks, lockers>>
queueVars == <<qdata, maxlen, can_put, can_get, tasks>>
registryVars == <<values, registered, result>>
libVars == <<lockVars, queueVars, registryVars>>
vars == <<lirs, hirs, s, q, data, gen, last, lastSet, step,
          max_size, min_count, sizeof, d, size, removed, raised, recent,
          locks, lockers, qdata, maxlen, can_put, can_get, tasks,
          values, registered, result>>

\* The state of a MultiLock and of a Queue that nothing uses: MultiLock()
\* with no greenlet, Queue(0) with no greenlet.
NoLock == locks = <<>> /\ lockers = <<>>
NoQueue ==
    /\ qdata = <<>>
    /\ maxlen = 0
    /\ can_put = FALSE
    /\ can_get = FALSE
    /\ tasks = <<>>
\* A Registry() that nothing uses.
NoRegistry ==
    /\ values = <<>>
    /\ registered = <<>>
    /\ result = [ret |-> None, raised |-> FALSE]
NoLib == NoLock /\ NoQueue /\ NoRegistry

\* ------------------------------------------------- OrderedDict primitives
\* An OrderedDict is a sequence of entries, oldest first.  S holds records
\* [key, status]; Q holds keys (every value of q is True).
Entry(k, st) == [key |-> k, status |-> st]

SKeys(s0) == {s0[i].key : i \in 1..Len(s0)}

\* s.get(key, None)
SGet(s0, k) ==
    IF k \in SKeys(s0)
    THEN (CHOOSE e \in {s0[i] : i \in 1..Len(s0)} : e.key = k).status
    ELSE None

\* s.pop(key, None): the mapping without key
SDel(s0, k) == SelectSeq(s0, LAMBDA e : e.key # k)

\* s[key] = status : in place when key is present, appended otherwise
SSet(s0, k, st) ==
    IF k \in SKeys(s0)
    THEN [i \in 1..Len(s0) |-> IF s0[i].key = k THEN Entry(k, st) ELSE s0[i]]
    ELSE Append(s0, Entry(k, st))

QKeys(q0) == {q0[i] : i \in 1..Len(q0)}

\* q.pop(key, ...): the mapping without key
QDel(q0, k) == SelectSeq(q0, LAMBDA x : x # k)

\* q[key] = True : in place when key is present, appended otherwise
QSet(q0, k) == IF k \in QKeys(q0) THEN q0 ELSE Append(q0, k)

\* ------------------------------------------------------------- LIRSStack
\* prune that leaves s as it is.
pruneNothing(s0) == s0

\* LIRSStack.prune: pop entries off the head of s until the head is LIR.
RECURSIVE prune(_)
prune(s0) ==
    IF s0 = <<>> THEN s0
    ELSE IF s0[1].status = LIR THEN s0
    ELSE prune(Tail(s0))

\* QFull without the "> 0" test (len(q) >= self.hirs and q): with hirs = 0
\* every non-empty q counts as full.
QFullAtZero(H, q0) == Len(q0) >= H /\ q0 # <<>>

\* QFull with the comparison off by one.
QFullOffByOne(H, q0) == Len(q0) > H /\ H > 0

\* The "len(q) >= self.hirs > 0" test of hit.
QFull(H, q0) == Len(q0) >= H /\ H > 0

\* LIRSStack.hit, branch "status == 0": lirs block
HitLir(s1, q0, key) ==
    [s |-> prune(SSet(s1, key, LIR)), q |-> q0, to_evict |-> None]

\* HitHir that tests the cap of q before it pops key from q: a resident key
\* hit on a full q displaces the head of q.
HitHirCapFirst(H, s1, q0, key) ==
    LET full == QFull(H, q0)
        q1 == IF full THEN Tail(q0) ELSE q0
        q2 == QDel(q1, key)
        s2 == SSet(s1, key, LIR)
        q3 == QSet(q2, Head(s2).key)
    IN  [s |-> prune(Tail(s2)), q |-> q3,
         to_evict |-> IF full THEN Head(q0) ELSE None]

\* LIRSStack.hit, branch "status == 1": hirs block (s1 is s without key)
HitHir(H, s1, q0, key) ==
    LET resident == key \in QKeys(q0)
        q1 == QDel(q0, key)
        full == ~resident /\ QFull(H, q1)
        q2 == IF full THEN Tail(q1) ELSE q1
        s2 == SSet(s1, key, LIR)
        q3 == QSet(q2, Head(s2).key)
    IN  [s |-> prune(Tail(s2)), q |-> q3,
         to_evict |-> IF full THEN Head(q1) ELSE None]

\* HitNew with q.popitem() in place of q.popitem(0): the newest resident HIR
\* key is displaced instead of the oldest.
HitNewEvictsTail(L, H, s1, q0, key) ==
    IF key \in QKeys(q0)
    THEN [s |-> SSet(s1, key, HIR), q |-> QSet(QDel(q0, key), key),
          to_evict |-> None]
    ELSE IF Len(s1) < L
    THEN [s |-> SSet(s1, key, LIR), q |-> q0, to_evict |-> None]
    ELSE LET full == QFull(H, q0)
             q1 == IF full THEN SubSeq(q0, 1, Len(q0) - 1) ELSE q0
         IN  [s |-> SSet(s1, key, HIR), q |-> QSet(q1, key),
              to_evict |-> IF full THEN q0[Len(q0)] ELSE None]

\* LIRSStack.hit, branch "else": key not in s
HitNew(L, H, s1, q0, key) ==
    IF key \in QKeys(q0)
    THEN [s |-> SSet(s1, key, HIR), q |-> QSet(QDel(q0, key), key),
          to_evict |-> None]
    ELSE IF Len(s1) < L
    THEN [s |-> SSet(s1, key, LIR), q |-> q0, to_evict |-> None]
    ELSE LET full == QFull(H, q0)
             q1 == IF full THEN Tail(q0) ELSE q0
         IN  [s |-> SSet(s1, key, HIR), q |-> QSet(q1, key),
              to_evict |-> IF full THEN Head(q0) ELSE None]

\* LIRSStack.hit(key): the new s and q and the returned key (or None)
hit(L, H, s0, q0, key) ==
    LET status == SGet(s0, key)
        s1 == SDel(s0, key)
    IN  IF status = LIR THEN HitLir(s1, q0, key)
        ELSE IF status = HIR THEN HitHir(H, s1, q0, key)
        ELSE HitNew(L, H, s1, q0, key)

\* remove that only prunes when q is empty: the HIR entries behind a LIR
\* entry stay in s.
removePrunesOnly(s0, q0, key) ==
    LET status == SGet(s0, key)
        s1 == SDel(s0, key)
    IN  IF status = LIR
        THEN IF q0 = <<>>
             THEN [s |-> prune(s1), q |-> QDel(q0, key)]
             ELSE [s |-> prune(SSet(s1, Head(q0), LIR)),
                   q |-> QDel(Tail(q0), key)]
        ELSE [s |-> s1, q |-> QDel(q0, key)]

\* remove that moves the promoted key to the tail of s (it pops the key from
\* s before it sets it) instead of updating it where it is.
removePromotesToTail(s0, q0, key) ==
    LET status == SGet(s0, key)
        s1 == SDel(s0, key)
    IN  IF status = LIR
        THEN IF q0 = <<>>
             THEN [s |-> SelectSeq(s1, LAMBDA e : e.status # HIR),
                   q |-> QDel(q0, key)]
             ELSE [s |-> prune(Append(SDel(s1, Head(q0)), Entry(Head(q0), LIR))),
                   q |-> QDel(Tail(q0), key)]
        ELSE [s |-> s1, q |-> QDel(q0, key)]

\* remove that reads the first key of q without popping it: the promoted
\* key stays in q.
removePeeksQ(s0, q0, key) ==
    LET status == SGet(s0, key)
        s1 == SDel(s0, key)
    IN  IF status = LIR
        THEN IF q0 = <<>>
             THEN [s |-> SelectSeq(s1, LAMBDA e : e.status # HIR),
                   q |-> QDel(q0, key)]
             ELSE [s |-> prune(SSet(s1, Head(q0), LIR)), q |-> QDel(q0, key)]
        ELSE [s |-> s1, q |-> QDel(q0, key)]

\* remove without its last statement, q.pop(key, None).
removeKeepsQ(s0, q0, key) ==
    LET status == SGet(s0, key)
        s1 == SDel(s0, key)
    IN  IF status = LIR
        THEN IF q0 = <<>>
             THEN [s |-> SelectSeq(s1, LAMBDA e : e.status # HIR), q |-> q0]
             ELSE [s |-> prune(SSet(s1, Head(q0), LIR)), q |-> Tail(q0)]
        ELSE [s |-> s1, q |-> q0]

\* LIRSStack.remove(key): the new s and q
remove(s0, q0, key) ==
    LET status == SGet(s0, key)
        s1 == SDel(s0, key)
    IN  IF status = LIR
        THEN IF q0 = <<>>
             THEN [s |-> SelectSeq(s1, LAMBDA e : e.status # HIR),
                   q |-> QDel(q0, key)]
             ELSE [s |-> prune(SSet(s1, Head(q0), LIR)),
                   q |-> QDel(Tail(q0), key)]
        ELSE [s |-> s1, q |-> QDel(q0, key)]

\* The second loop of evict without its status test: every popped head is
\* yielded, the HIR entries too.
EvictFromSAnyStatus(s0) ==
    IF s0 = <<>> THEN [s |-> s0, key |-> None]
    ELSE [s |-> prune(Tail(s0)), key |-> Head(s0).key]

\* LIRSStack.evict, second loop: pop the head of s until a LIR entry is
\* found (pruned and yielded) or s is empty (key None: the generator ends).
RECURSIVE EvictFromS(_)
EvictFromS(s0) ==
    IF s0 = <<>> THEN [s |-> s0, key |-> None]
    ELSE IF Head(s0).status = LIR
    THEN [s |-> prune(Tail(s0)), key |-> Head(s0).key]
    ELSE EvictFromS(Tail(s0))

\* LIRSStack.evict: one resumption of the generator suspended in loop `at`
\* ("q": first loop or not started, "s": second loop), up to its next yield.
evict(at, s0, q0) ==
    IF at = "q" /\ q0 # <<>>
    THEN [s |-> SDel(s0, Head(q0)), q |-> Tail(q0), key |-> Head(q0), at |-> "q"]
    ELSE LET r == EvictFromS(s0)
         IN  [s |-> r.s, q |-> q0, key |-> r.key,
              at |-> IF r.key = None THEN "done" ELSE "s"]

\* list(stack.evict()) on a generator suspended in loop `at`: the keys it
\* yields until it ends, and the s and q it leaves
RECURSIVE ExhaustFrom(_, _, _)
ExhaustFrom(at, s0, q0) ==
    LET r == evict(at, s0, q0)
    IN  IF r.key = None
        THEN [keys |-> <<>>, s |-> r.s, q |-> r.q]
        ELSE LET rest == ExhaustFrom(r.at, r.s, r.q)
             IN  [keys |-> <<r.key>> \o rest.keys, s |-> rest.s, q |-> rest.q]

\* list(stack.evict()): a fresh generator run to its end
Exhaust(s0, q0) == ExhaustFrom("q", s0, q0)

\* At most n resumptions of a generator suspended in loop `at`
RECURSIVE TakeFrom(_, _, _, _)
TakeFrom(n, at, s0, q0) ==
    IF n = 0
    THEN [keys |-> <<>>, s |-> s0, q |-> q0]
    ELSE LET r == evict(at, s0, q0)
         IN  IF r.key = None
             THEN [keys |-> <<>>, s |-> r.s, q |-> r.q]
             ELSE LET rest == TakeFrom(n - 1, r.at, r.s, r.q)
                  IN  [keys |-> <<r.key>> \o rest.keys,
                       s |-> rest.s, q |-> rest.q]

\* Taking keys with zip(stack.evict(), range(n)): zip resumes the generator
\* before it finds the range at its end, so one more key is yielded and lost.
TakeGeneratorFirst(n, s0, q0) ==
    LET t == TakeFrom(n + 1, "q", s0, q0)
    IN  [keys |-> SubSeq(t.keys, 1, IF Len(t.keys) > n THEN n ELSE Len(t.keys)),
         s |-> t.s, q |-> t.q]

\* [k for i, k in zip(range(n), stack.evict())]: n keys are taken from a
\* fresh generator, which is then abandoned
Take(n, s0, q0) == TakeFrom(n, "q", s0, q0)

\* What a call leaves behind for its caller: the key returned (hit's evicted
\* key, evict's yielded key) or None, and whether it raised.
Outcome(key, exc) == [evicted |-> key, raised |-> exc]

\* next_to_evict that looks at s before q.
NextToEvictSFirst(s0, q0) ==
    IF s0 # <<>> THEN Outcome(Head(s0).key, FALSE)
    ELSE IF q0 # <<>> THEN Outcome(Head(q0), FALSE)
    ELSE Outcome(None, TRUE)

\* LIRSStack.next_to_evict: the key returned, or the ValueError raised
next_to_evict(s0, q0) ==
    IF q0 # <<>> THEN Outcome(Head(q0), FALSE)
    ELSE IF s0 # <<>> THEN Outcome(Head(s0).key, FALSE)
    ELSE Outcome(None, TRUE)

\* LIRSStack.__init__
StackInit(L, H) ==
    /\ lirs = L
    /\ hirs = H
    /\ s = <<>>
    /\ q = <<>>
    /\ gen = "none"
    /\ last = Outcome(None, FALSE)

\* ------------------------------------------------------------- LIRSCache
EmptyDict == [x \in {} |-> None]
DictSet(d0, k, v) == [x \in (DOMAIN d0) \cup {k} |-> IF x = k THEN v ELSE d0[x]]
DictDel(d0, k) == [x \in (DOMAIN d0) \ {k} |-> d0[x]]
DictGet(d0, k, default) == IF k \in DOMAIN d0 THEN d0[k] ELSE default

\* _evict with self._data.popitem() in place of pop(to_evict, None): some
\* stored key goes, not necessarily the evicted one.
CacheEvictPopitem(d0, to_evict) ==
    IF DOMAIN d0 = {} THEN d0
    ELSE DictDel(d0, CHOOSE k \in DOMAIN d0 : \A x \in DOMAIN d0 : k >= x)

\* LIRSCache._evict
CacheEvict(d0, to_evict) == DictDel(d0, to_evict)

\* LIRSCache._hit: the stack's hit, then the eviction from storage
CacheHit(L, H, s0, q0, d0, key) ==
    LET r == hit(L, H, s0, q0, key)
    IN  [s |-> r.s, q |-> r.q, to_evict |-> r.to_evict,
         data |-> IF r.to_evict # None THEN CacheEvict(d0, r.to_evict) ELSE d0]

\* History kept beside _hit: an evicted key's value is no longer owed.
Forget(h0, to_evict) == IF to_evict # None THEN DictDel(h0, to_evict) ELSE h0

\* LIRSCache.__setitem__
Set(key, item) ==
    LET r == CacheHit(lirs, hirs, s, q, data, key)
    IN  /\ s' = r.s
        /\ q' = r.q
        /\ data' = DictSet(r.data, key, item)
        /\ last' = Outcome(r.to_evict, FALSE)
        /\ lastSet' = DictSet(Forget(lastSet, r.to_evict), key, item)
        /\ UNCHANGED <<lirs, hirs, gen>>

\* LIRSCache.get: the value returned (the state after the hit decides it)
GetReturn(key, default) ==
    IF key \notin DOMAIN data THEN default
    ELSE CacheHit(lirs, hirs, s, q, data, key).data[key]

\* get that calls self._hit(key) before it looks into storage.
GetHitsFirst(key, default) ==
    LET r == CacheHit(lirs, hirs, s, q, data, key)
    IN  /\ s' = r.s
        /\ q' = r.q
        /\ data' = r.data
        /\ last' = Outcome(r.to_evict, FALSE)
        /\ lastSet' = Forget(lastSet, r.to_evict)
        /\ UNCHANGED <<lirs, hirs, gen>>

\* LIRSCache.get
Get(key, default) ==
    IF key \notin DOMAIN data
    THEN /\ last' = Outcome(None, FALSE)
         /\ UNCHANGED <<lirs, hirs, s, q, data, gen, lastSet>>
    ELSE LET r == CacheHit(lirs, hirs, s, q, data, key)
         IN  /\ s' = r.s
             /\ q' = r.q
             /\ data' = r.data
             /\ last' = Outcome(r.to_evict, key \notin DOMAIN r.data)
             /\ lastSet' = Forget(lastSet, r.to_evict)
             /\ UNCHANGED <<lirs, hirs, gen>>

\* LIRSCache.__getitem__: the value returned (read before the hit)
GetItemReturn(key) == data[key]

\* LIRSCache.__getitem__
GetItem(key) ==
    IF key \notin DOMAIN data
    THEN /\ last' = Outcome(None, TRUE)
         /\ UNCHANGED <<lirs, hirs, s, q, data, gen, lastSet>>
    ELSE LET r == CacheHit(lirs, hirs, s, q, data, key)
         IN  /\ s' = r.s
             /\ q' = r.q
             /\ data' = r.data
             /\ last' = Outcome(r.to_evict, FALSE)
             /\ lastSet' = Forget(lastSet, r.to_evict)
             /\ UNCHANGED <<lirs, hirs, gen>>

\* LIRSCache.pop: the value returned
PopReturn(key, default) == DictGet(data, key, default)

\* LIRSCache.pop
Pop(key) ==
    LET r == remove(s, q, key)
    IN  /\ s' = r.s
        /\ q' = r.q
        /\ data' = DictDel(data, key)
        /\ last' = Outcome(None, FALSE)
        /\ lastSet' = DictDel(lastSet, key)
        /\ UNCHANGED <<lirs, hirs, gen>>

\* LIRSCache.__delitem__
DelItem(key) ==
    IF key \notin DOMAIN data
    THEN /\ last' = Outcome(None, TRUE)
         /\ UNCHANGED <<lirs, hirs, s, q, data, gen, lastSet>>
    ELSE LET r == remove(s, q, key)
         IN  /\ s' = r.s
             /\ q' = r.q
             /\ data' = DictDel(data, key)
             /\ last' = Outcome(None, FALSE)
             /\ lastSet' = DictDel(lastSet, key)
             /\ UNCHANGED <<lirs, hirs, gen>>

\* LIRSCache.clear
Clear ==
    /\ s' = <<>>
    /\ q' = <<>>
    /\ data' = EmptyDict
    /\ last' = Outcome(None, FALSE)
    /\ lastSet' = EmptyDict
    /\ UNCHANGED <<lirs, hirs, gen>>

\* LIRSCache.__contains__: the value returned
ContainsReturn(key) == key \in DOMAIN data

\* LIRSCache.__contains__
Contains(key) ==
    /\ last' = Outcome(None, FALSE)
    /\ UNCHANGED <<lirs, hirs, s, q, data, gen, lastSet>>

\* LIRSCache.__len__: the value returned
LenReturn == Cardinality(DOMAIN data)

\* LIRSCache.__len__
Length ==
    /\ last' = Outcome(None, FALSE)
    /\ UNCHANGED <<lirs, hirs, s, q, data, gen, lastSet>>

\* LIRSCache.__iter__: the keys iterated
IterReturn == DOMAIN data

\* LIRSCache.__iter__, run to its end
Iterate ==
    /\ last' = Outcome(None, FALSE)
    /\ UNCHANGED <<lirs, hirs, s, q, data, gen, lastSet>>

\* LIRSCache.next_to_evict
NextToEvict ==
    /\ last' = next_to_evict(s, q)
    /\ UNCHANGED <<lirs, hirs, s, q, data, gen, lastSet>>

\* LIRSCache.__init__
CacheInit(L, H) ==
    /\ StackInit(L, H)
    /\ data = EmptyDict
    /\ lastSet = EmptyDict

\* -------------------------------------------------------------- LRUCache
\* _d is a sequence of [key, value] records, oldest first.
Item(k, v) == [key |-> k, value |-> v]
DKeys(d0) == {d0[i].key : i \in 1..Len(d0)}
DValue(d0, k) == (CHOOSE e \in {d0[i] : i \in 1..Len(d0)} : e.key = k).value
DDel(d0, k) == SelectSeq(d0, LAMBDA e : e.key # k)

\* _prune with the floor test off by one (len(self._d) >= self._min_count): it
\* evicts one entry more than the floor allows.
RECURSIVE LruPruneBelowFloor(_, _, _, _, _)
LruPruneBelowFloor(maxSize, minCount, szof, d0, c0) ==
    IF c0.size > maxSize /\ Len(d0) >= minCount /\ d0 # <<>>
    THEN LruPruneBelowFloor(maxSize, minCount, szof, Tail(d0),
                            [size |-> c0.size - szof[Head(d0).value],
                             removed |-> Append(c0.removed,
                                                <<Head(d0).key, Head(d0).value>>)])
    ELSE [d |-> d0, size |-> c0.size, removed |-> c0.removed]

\* _prune with popitem() in place of popitem(False): it evicts from the tail,
\* the most recently used end.
RECURSIVE LruPruneFromTail(_, _, _, _, _)
LruPruneFromTail(maxSize, minCount, szof, d0, c0) ==
    IF c0.size > maxSize /\ Len(d0) > minCount
    THEN LruPruneFromTail(maxSize, minCount, szof, SubSeq(d0, 1, Len(d0) - 1),
                          [size |-> c0.size - szof[d0[Len(d0)].value],
                           removed |-> Append(c0.removed,
                                              <<d0[Len(d0)].key,
                                                d0[Len(d0)].value>>)])
    ELSE [d |-> d0, size |-> c0.size, removed |-> c0.removed]

\* _prune with `if` in place of `while`: at most one entry is evicted.
LruPruneOnce(maxSize, minCount, szof, d0, c0) ==
    IF c0.size > maxSize /\ Len(d0) > minCount
    THEN [d |-> Tail(d0), size |-> c0.size - szof[Head(d0).value],
          removed |-> Append(c0.removed, <<Head(d0).key, Head(d0).value>>)]
    ELSE [d |-> d0, size |-> c0.size, removed |-> c0.removed]

\* LRUCache._prune: evict from the head while over budget and above the floor
RECURSIVE LruPrune(_, _, _, _, _)
LruPrune(maxSize, minCount, szof, d0, c0) ==
    IF c0.size > maxSize /\ Len(d0) > minCount
    THEN LruPrune(maxSize, minCount, szof, Tail(d0),
                  [size |-> c0.size - szof[Head(d0).value],
                   removed |-> Append(c0.removed,
                                      <<Head(d0).key, Head(d0).value>>)])
    ELSE [d |-> d0, size |-> c0.size, removed |-> c0.removed]

\* __setitem__ with the admission test off by one (size <= self._max_size).
LruSetAdmitsEqual(maxSize, minCount, szof, d0, size0, key, value) ==
    LET had == key \in DKeys(d0)
        d1 == IF had THEN DDel(d0, key) ELSE d0
        size1 == IF had THEN size0 - szof[DValue(d0, key)] ELSE size0
    IN  IF szof[value] <= maxSize
        THEN LruPrune(maxSize, minCount, szof, Append(d1, Item(key, value)),
                      [size |-> size1 + szof[value], removed |-> <<>>])
        ELSE [d |-> d1, size |-> size1, removed |-> <<>>]

\* LRUCache.__setitem__: the new _d and _size and the callbacks made
LruSet(maxSize, minCount, szof, d0, size0, key, value) ==
    LET had == key \in DKeys(d0)
        d1 == IF had THEN DDel(d0, key) ELSE d0
        size1 == IF had THEN size0 - szof[DValue(d0, key)] ELSE size0
    IN  IF szof[value] < maxSize
        THEN LruPrune(maxSize, minCount, szof, Append(d1, Item(key, value)),
                      [size |-> size1 + szof[value], removed |-> <<>>])
        ELSE [d |-> d1, size |-> size1, removed |-> <<>>]

\* __delitem__ that forgets to take the entry's size off _size.
LruDelSizeKept(szof, d0, size0, key) == size0

\* LRUCache.__delitem__ (key present): the new _size
LruDelSize(szof, d0, size0, key) == size0 - szof[DValue(d0, key)]

\* History kept beside the calls: key k has just been set or read.
Touch(h0, k) == Append(SelectSeq(h0, LAMBDA x : x # k), k)

\* History kept beside the calls: only the keys still stored are remembered.
Stay(h0, keys) == SelectSeq(h0, LAMBDA x : x \in keys)

\* LRUCache.__init__
LruInit(maxSize, minCount, szof) ==
    /\ max_size = maxSize
    /\ min_count = minCount
    /\ sizeof = szof
    /\ d = <<>>
    /\ size = 0
    /\ removed = <<>>
    /\ raised = FALSE
    /\ recent = <<>>

\* LRUCache.__setitem__
LruSetItem(key, value) ==
    LET r == LruSet(max_size, min_count, sizeof, d, size, key, value)
    IN  /\ d' = r.d
        /\ size' = r.size
        /\ removed' = r.removed
        /\ raised' = FALSE
        /\ recent' = Stay(Touch(recent, key), DKeys(r.d))
        /\ UNCHANGED <<max_size, min_count, sizeof>>

\* __getitem__ that returns the value without moving the entry to the tail.
LruGetItemInPlace(key) ==
    /\ d' = d
    /\ raised' = (key \notin DKeys(d))
    /\ recent' = IF key \in DKeys(d) THEN Touch(recent, key) ELSE recent
    /\ removed' = <<>>
    /\ UNCHANGED <<max_size, min_count, sizeof, size>>

\* LRUCache.__getitem__
LruGetItem(key) ==
    /\ IF key \in DKeys(d)
       THEN /\ d' = Append(DDel(d, key), Item(key, DValue(d, key)))
            /\ raised' = FALSE
            /\ recent' = Touch(recent, key)
       ELSE /\ d' = d
            /\ raised' = TRUE
            /\ recent' = recent
    /\ removed' = <<>>
    /\ UNCHANGED <<max_size, min_count, sizeof, size>>

\* __delitem__ written with self._d.pop(key, None): an absent key does not
\* raise and the callback is invoked with (key, None).
LruDelItemDefaulted(key) ==
    /\ IF key \in DKeys(d)
       THEN /\ d' = DDel(d, key)
            /\ size' = LruDelSize(sizeof, d, size, key)
            /\ removed' = <<<<key, DValue(d, key)>>>>
            /\ recent' = Stay(recent, DKeys(d) \ {key})
       ELSE /\ UNCHANGED <<d, size, recent>>
            /\ removed' = <<<<key, None>>>>
    /\ raised' = FALSE
    /\ UNCHANGED <<max_size, min_count, sizeof>>

\* LRUCache.__delitem__
LruDelItem(key) ==
    /\ IF key \in DKeys(d)
       THEN /\ d' = DDel(d, key)
            /\ size' = LruDelSize(sizeof, d, size, key)
            /\ removed' = <<<<key, DValue(d, key)>>>>
            /\ raised' = FALSE
            /\ recent' = Stay(recent, DKeys(d) \ {key})
       ELSE /\ UNCHANGED <<d, size, recent>>
            /\ removed' = <<>>
            /\ raised' = TRUE
    /\ UNCHANGED <<max_size, min_count, sizeof>>

\* `key in cache` answered from self._d directly: nothing is moved.
LruContainsInPlace(key) ==
    /\ raised' = FALSE
    /\ removed' = <<>>
    /\ UNCHANGED <<max_size, min_count, sizeof, size, d, recent>>

\* Mapping.__contains__, which LRUCache inherits: the value returned
LruContainsReturn(key) == key \in DKeys(d)

\* Mapping.__contains__, which LRUCache inherits: it evaluates self[key]
\* and turns a KeyError into False
LruContains(key) ==
    /\ d' = IF key \in DKeys(d)
            THEN Append(DDel(d, key), Item(key, DValue(d, key)))
            ELSE d
    /\ recent' = IF key \in DKeys(d) THEN Touch(recent, key) ELSE recent
    /\ raised' = FALSE
    /\ removed' = <<>>
    /\ UNCHANGED <<max_size, min_count, sizeof, size>>

\* Mapping.get, which LRUCache inherits: the value returned
LruGetReturn(key, default) ==
    IF key \in DKeys(d) THEN DValue(d, key) ELSE default

\* Mapping.get, which LRUCache inherits: it returns self[key] and turns a
\* KeyError into default
LruGet(key, default) ==
    /\ d' = IF key \in DKeys(d)
            THEN Append(DDel(d, key), Item(key, DValue(d, key)))
            ELSE d
    /\ recent' = IF key \in DKeys(d) THEN Touch(recent, key) ELSE recent
    /\ raised' = FALSE
    /\ removed' = <<>>
    /\ UNCHANGED <<max_size, min_count, sizeof, size>>

\* LRUCache.clear
LruClear ==
    /\ removed' = [i \in 1..Len(d) |-> <<d[i].key, d[i].value>>]
    /\ size' = 0
    /\ d' = <<>>
    /\ raised' = FALSE
    /\ recent' = <<>>
    /\ UNCHANGED <<max_size, min_count, sizeof>>

\* The workloads of the LIRS classes hold no LRUCache.
NoLru == LruInit(0, 0, [v \in {} |-> 0])

\* ------------------------------------- the LRUCache under any workload
\* sizeof is the default (every value counts 1) or the value's own magnitude.
LruValues == 0..NumValues
Sizeofs == {[v \in LruValues |-> 1], [v \in LruValues |-> v]}

InitLru ==
    /\ \E m \in 0..MaxMaxSize, c \in 0..MaxMinCount, f \in Sizeofs :
           LruInit(m, c, f)
    /\ CacheInit(0, 0)
    /\ step = None
    /\ NoLib

DoLruSetItem ==
    (\E k \in ValueKeys, v \in LruValues : LruSetItem(k, v)) /\ UNCHANGED <<lirsVars, libVars>>
DoLruGetItem == (\E k \in ValueKeys : LruGetItem(k)) /\ UNCHANGED <<lirsVars, libVars>>
DoLruDelItem == (\E k \in ValueKeys : LruDelItem(k)) /\ UNCHANGED <<lirsVars, libVars>>
DoLruClear == LruClear /\ UNCHANGED <<lirsVars, libVars>>

NextLru == DoLruSetItem \/ DoLruGetItem \/ DoLruDelItem \/ DoLruClear

SpecLru == InitLru /\ [][NextLru]_vars

\* ------------ the LRUCache under any workload with its inherited reads
DoLruContains ==
    (\E k \in ValueKeys : LruContains(k)) /\ UNCHANGED <<lirsVars, libVars>>
DoLruGet ==
    (\E k \in ValueKeys : LruGet(k, None)) /\ UNCHANGED <<lirsVars, libVars>>

NextLruRead == NextLru \/ DoLruContains \/ DoLruGet

SpecLruRead == InitLru /\ [][NextLruRead]_vars

\* ------------------------------------- the LRUCache reference scenario
\* TestLRUCache.test_cache: LRUCache(10, 10) with the default sizeof; keys
\* 0..9 are set to their own value, key 1 is set again to 100, key 10 is set,
\* key 10 is read, key 2 is deleted and the cache is cleared.  Every call may
\* also leave the script, after which the run is no longer followed.
RefMaxSize == 10
RefMinCount == 10
RefLruKeys == 0..10
RefLruValues == (0..10) \cup {100}

LruCall(op, key, value) == [op |-> op, key |-> key, value |-> value]

LruScript ==
    [i \in 1..10 |-> LruCall("set", i - 1, i - 1)]
    \o <<LruCall("set", 1, 100), LruCall("set", 10, 10),
         LruCall("getitem", 10, None), LruCall("del", 2, None),
         LruCall("clear", None, None)>>

OnLruScript == step \in 0..(Len(LruScript) - 1)

\* the script position after the call (op, key, value)
LruAdvance(op, key, value) ==
    IF LruScript[step + 1] = LruCall(op, key, value)
    THEN step + 1
    ELSE Len(LruScript) + 1

\* the LIRS fields, which an LRUCache call leaves alone
lirsFields == <<lirs, hirs, s, q, data, gen, last, lastSet>>

InitLruRef ==
    /\ LruInit(RefMaxSize, RefMinCount, [v \in RefLruValues \cup LruValues |-> 1])
    /\ CacheInit(0, 0)
    /\ step = 0
    /\ NoLib

InitLruOrder == InitLru \/ InitLruRef

\* The LRUCache under any workload (step = None) together with the
\* reference scenario, whose step follows the script or leaves it.
NextLruOrder ==
    \/ step = None /\ DoLruSetItem
    \/ step = None /\ DoLruGetItem
    \/ step = None /\ DoLruDelItem
    \/ step = None /\ DoLruClear
    \/ /\ OnLruScript
       /\ \/ \E k \in RefLruKeys, v \in RefLruValues :
                 LruSetItem(k, v) /\ step' = LruAdvance("set", k, v)
          \/ \E k \in RefLruKeys :
                 LruGetItem(k) /\ step' = LruAdvance("getitem", k, None)
          \/ \E k \in RefLruKeys :
                 LruDelItem(k) /\ step' = LruAdvance("del", k, None)
          \/ LruClear /\ step' = LruAdvance("clear", None, None)
       /\ UNCHANGED <<lirsFields, libVars>>

SpecLruOrder == InitLruOrder /\ [][NextLruOrder]_vars

\* ------------------------------------------ the cache under any workload
Init ==
    /\ \E L \in 0..MaxLirs, H \in 0..MaxHirs : CacheInit(L, H)
    /\ step = None
    /\ NoLru
    /\ NoLib

DoSet == (\E k \in Keys : Set(k, True)) /\ UNCHANGED <<step, lruVars, libVars>>
DoGet == (\E k \in Keys : Get(k, None)) /\ UNCHANGED <<step, lruVars, libVars>>
DoGetItem == (\E k \in Keys : GetItem(k)) /\ UNCHANGED <<step, lruVars, libVars>>
DoPop == (\E k \in Keys : Pop(k)) /\ UNCHANGED <<step, lruVars, libVars>>
DoDelItem == (\E k \in Keys : DelItem(k)) /\ UNCHANGED <<step, lruVars, libVars>>
DoClear == Clear /\ UNCHANGED <<step, lruVars, libVars>>

Next == DoSet \/ DoGet \/ DoGetItem \/ DoPop \/ DoDelItem \/ DoClear

Spec == Init /\ [][Next]_vars

\* ------------------- the cache under any workload that also peeks
DoNextToEvict == NextToEvict /\ UNCHANGED <<step, lruVars, libVars>>

NextPeek == Next \/ DoNextToEvict

SpecPeek == Init /\ [][NextPeek]_vars

\* ------------- the cache under any workload with its read-only calls
DoContains == (\E k \in Keys : Contains(k)) /\ UNCHANGED <<step, lruVars, libVars>>
DoLength == Length /\ UNCHANGED <<step, lruVars, libVars>>
DoIterate == Iterate /\ UNCHANGED <<step, lruVars, libVars>>

NextRead == Next \/ DoContains \/ DoLength \/ DoIterate

SpecRead == Init /\ [][NextRead]_vars

\* ------------------------- the cache storing values that can be told apart
NextValues ==
    \/ (\E k \in ValueKeys, v \in Values : Set(k, v)) /\ UNCHANGED <<step, lruVars, libVars>>
    \/ (\E k \in ValueKeys : Get(k, None)) /\ UNCHANGED <<step, lruVars, libVars>>
    \/ (\E k \in ValueKeys : GetItem(k)) /\ UNCHANGED <<step, lruVars, libVars>>
    \/ (\E k \in ValueKeys : Pop(k)) /\ UNCHANGED <<step, lruVars, libVars>>
    \/ (\E k \in ValueKeys : DelItem(k)) /\ UNCHANGED <<step, lruVars, libVars>>
    \/ Clear /\ UNCHANGED <<step, lruVars, libVars>>

SpecValues == Init /\ [][NextValues]_vars

\* ------------------------------------------- the reference scenario
\* LIRSTest.create_cache followed by the accesses of LIRSTest.test_cache_hit.
\* The cache is LIRSCache(3, 2); every call may also leave the script, after
\* which the run is no longer followed.
RefLirs == 3
RefHirs == 2
RefKeys == 1..9

Call(op, key) == [op |-> op, key |-> key]

Script ==
    <<Call("set", 8), Call("set", 4), Call("set", 1), Call("set", 8),
      Call("set", 4), Call("set", 9), Call("set", 6), Call("set", 1),
      Call("set", 2), Call("set", 3), Call("set", 5),
      Call("getitem", 4), Call("getitem", 8), Call("getitem", 3),
      Call("getitem", 5), Call("set", 7), Call("set", 9), Call("set", 5)>>

OnScript == step # None /\ step < Len(Script)

\* the script position after the call (op, key)
Advance(op, key) == IF Script[step + 1] = Call(op, key) THEN step + 1 ELSE None

InitRef ==
    /\ CacheInit(RefLirs, RefHirs)
    /\ step = 0
    /\ NoLru
    /\ NoLib

\* one call of the script's workload; step follows the script or leaves it
NextRef ==
    /\ OnScript
    /\ \/ \E k \in RefKeys : Set(k, True) /\ step' = Advance("set", k)
       \/ \E k \in RefKeys : Get(k, None) /\ step' = Advance("get", k)
       \/ \E k \in RefKeys : GetItem(k) /\ step' = Advance("getitem", k)
       \/ \E k \in RefKeys : Pop(k) /\ step' = Advance("pop", k)
       \/ \E k \in RefKeys : DelItem(k) /\ step' = Advance("del", k)
       \/ Clear /\ step' = Advance("clear", None)
    /\ UNCHANGED <<lruVars, libVars>>

SpecRef == InitRef /\ [][NextRef]_vars

\* --------------------------------- the bare LIRSStack under any workload
\* LIRSStack.hit called directly
StackHit(key) ==
    LET r == hit(lirs, hirs, s, q, key)
    IN  /\ s' = r.s
        /\ q' = r.q
        /\ last' = Outcome(r.to_evict, FALSE)
        /\ UNCHANGED <<lirs, hirs, data, gen, lastSet, step, lruVars, libVars>>

\* LIRSStack.remove called directly
StackRemove(key) ==
    LET r == remove(s, q, key)
    IN  /\ s' = r.s
        /\ q' = r.q
        /\ last' = Outcome(None, FALSE)
        /\ UNCHANGED <<lirs, hirs, data, gen, lastSet, step, lruVars, libVars>>

\* LIRSStack.prune called directly
StackPrune ==
    /\ s' = prune(s)
    /\ last' = Outcome(None, FALSE)
    /\ UNCHANGED <<lirs, hirs, q, data, gen, lastSet, step, lruVars, libVars>>

\* LIRSStack.clear
StackClear ==
    /\ s' = <<>>
    /\ q' = <<>>
    /\ last' = Outcome(None, FALSE)
    /\ UNCHANGED <<lirs, hirs, data, gen, lastSet, step, lruVars, libVars>>

\* evict(): a new generator; none of its body runs before the first next()
EvictNew ==
    /\ gen' = "q"
    /\ last' = Outcome(None, FALSE)
    /\ UNCHANGED <<lirs, hirs, s, q, data, lastSet, step, lruVars, libVars>>

\* next() on the live generator: runs to the next yield, or raises
\* StopIteration when both loops are over
EvictNext ==
    /\ gen \in {"q", "s", "done"}
    /\ IF gen = "done"
       THEN /\ last' = Outcome(None, TRUE)
            /\ UNCHANGED <<s, q, gen>>
       ELSE LET r == evict(gen, s, q)
            IN  /\ s' = r.s
                /\ q' = r.q
                /\ gen' = r.at
                /\ last' = Outcome(r.key, r.key = None)
    /\ UNCHANGED <<lirs, hirs, data, lastSet, step, lruVars, libVars>>

InitStack ==
    /\ \E L \in 0..MaxLirs, H \in 0..MaxHirs : StackInit(L, H)
    /\ data = EmptyDict
    /\ lastSet = EmptyDict
    /\ step = None
    /\ NoLru
    /\ NoLib

DoStackHit == \E k \in Keys : StackHit(k)
DoStackRemove == \E k \in Keys : StackRemove(k)

NextStack ==
    DoStackHit \/ DoStackRemove \/ StackPrune \/ StackClear \/ EvictNew
    \/ EvictNext

SpecStack == InitStack /\ [][NextStack]_vars

\* ------------------ the bare LIRSStack under hit and remove calls only
NextHits == DoStackHit \/ DoStackRemove

SpecHits == InitStack /\ [][NextHits]_vars

\* ============================================================= MultiLock
\* gevent runs one greenlet at a time and switches only where a greenlet
\* blocks (event.wait(), gevent.sleep()) or ends, so the code between two
\* such points is one step.
Greenlets == 1..NumGreenlets
\* the ids and the causes the greenlets lock with
LockIds == {"a", "b"}
Causes == {"c1", "c2"}

\* _LockType
LockType(cause, count) == [cause |-> cause, count |-> count]

\* a greenlet that uses the lock once: `with lock(cause, *ids): sleep`.
\* pc is "spawned" (not yet run), "waiting" (in self.event.wait()), "notified"
\* (the event was set while it waited: it is about to run on), "holding"
\* (inside the with block), "done", or "cancelled" (acquire raised).
Locker(pc, cause, ids) == [pc |-> pc, cause |-> cause, ids |-> ids]

\* can_lock that wants every id unlocked, whatever the cause.
can_lock_exclusive(locks0, cause, ids) == ids \cap DOMAIN locks0 = {}

\* MultiLock.acquire: can_lock
can_lock(locks0, cause, ids) ==
    \A id \in ids \cap DOMAIN locks0 : locks0[id].cause = cause

\* MultiLock.acquire: locks.setdefault(id_, _LockType(cause)).inc() for each id
lock_ids(locks0, cause, ids) ==
    [id \in (DOMAIN locks0) \cup ids |->
        IF id \notin ids THEN locks0[id]
        ELSE IF id \in DOMAIN locks0
        THEN LockType(locks0[id].cause, locks0[id].count + 1)
        ELSE LockType(cause, 1)]

\* the for loop of release that deletes a lock as soon as it is released
\* once, whatever its count.
unlock_ids_at_once(locks0, ids) ==
    [id \in (DOMAIN locks0) \ ids |-> locks0[id]]

\* MultiLock.release, the for loop: dec() each id's lock and delete it at
\* count 0; an id that is not locked is skipped (KeyError)
unlock_ids(locks0, ids) ==
    LET gone == {id \in ids \cap DOMAIN locks0 : locks0[id].count = 1}
    IN  [id \in (DOMAIN locks0) \ gone |->
            IF id \in ids
            THEN LockType(locks0[id].cause, locks0[id].count - 1)
            ELSE locks0[id]]

\* release without self.event.set(): nobody is woken.
pulse_nobody(lockers0) == lockers0

\* MultiLock.release, self.event.set(); self.event.clear(): every greenlet
\* that is in event.wait() is switched to, whatever the flag is by then; the
\* flag is cleared before any other greenlet runs, so no wait() ever finds
\* it set.
pulse(lockers0) ==
    [g \in DOMAIN lockers0 |->
        IF lockers0[g].pc = "waiting"
        THEN Locker("notified", lockers0[g].cause, lockers0[g].ids)
        ELSE lockers0[g]]

\* MultiLock.__init__, and the greenlets spawned
LockInit(ls) ==
    /\ locks = <<>>
    /\ lockers = ls

\* MultiLock.acquire run by greenlet g, from its first line or from the
\* return of event.wait(), up to the break or to the next event.wait()
Acquire(g) ==
    LET me == lockers[g]
    IN  /\ me.pc \in {"spawned", "notified"}
        /\ IF can_lock(locks, me.cause, me.ids)
           THEN /\ locks' = lock_ids(locks, me.cause, me.ids)
                /\ lockers' = [lockers EXCEPT ![g].pc = "holding"]
           ELSE /\ locks' = locks
                /\ lockers' = [lockers EXCEPT ![g].pc = "waiting"]
        /\ UNCHANGED <<lirsVars, lruVars, queueVars, registryVars>>

\* MultiLock.release run by greenlet g at the end of its with block, after
\* which the greenlet ends
Release(g) ==
    LET me == lockers[g]
    IN  /\ me.pc = "holding"
        /\ locks' = unlock_ids(locks, me.ids)
        /\ lockers' = pulse([lockers EXCEPT ![g].pc = "done"])
        /\ UNCHANGED <<lirsVars, lruVars, queueVars, registryVars>>

\* gevent.Timeout raised in greenlet g inside event.wait(): acquire logs and
\* re-raises, nothing is locked
Timeout(g) ==
    /\ lockers[g].pc = "waiting"
    /\ lockers' = [lockers EXCEPT ![g].pc = "cancelled"]
    /\ locks' = locks
    /\ UNCHANGED <<lirsVars, lruVars, queueVars, registryVars>>

\* ------------------------------------ the MultiLock under any greenlets
InitLock ==
    /\ \E ls \in [Greenlets ->
                     {Locker("spawned", c, ids) :
                         c \in Causes, ids \in (SUBSET LockIds) \ {{}}}] :
           LockInit(ls)
    /\ NoQueue
    /\ NoRegistry
    /\ CacheInit(0, 0)
    /\ step = None
    /\ NoLru

NextLock == \E g \in Greenlets : Acquire(g) \/ Release(g) \/ Timeout(g)

SpecLock == InitLock /\ [][NextLock]_vars

\* ------------- greenlets that each lock once and release, none cancelled.
\* The hub runs every greenlet that is ready to run (spawned, or switched to
\* by the event) and ends every gevent.sleep(), so each greenlet's steps are
\* weakly fair.
NextLockRun == \E g \in Greenlets : Acquire(g) \/ Release(g)

SpecLockRun ==
    /\ InitLock
    /\ [][NextLockRun]_vars
    /\ \A g \in Greenlets : WF_vars(Acquire(g)) /\ WF_vars(Release(g))

\* ================================================================= Queue
\* the objects the greenlets put
QueueObjs == Values

\* a greenlet that uses the queue.  pc is "idle" (between two calls),
\* "put_wait" (in can_put.wait()), "get_wait" or "get_all_wait" (in
\* can_get.wait(), called from get or from get_all), or the same with "_run"
\* for "_wait" (the event was set while it waited: it is about to run on);
\* obj is the object of the put it is in.
Task(pc, obj) == [pc |-> pc, obj |-> obj]

\* full with "len(self.data) > self.maxlen".
full_above(data0, maxlen0) == Len(data0) > maxlen0

\* Queue.full
full(data0, maxlen0) == Len(data0) >= maxlen0

\* Event.set(): every greenlet that is in the event's wait() is switched to
notify(tasks0, waiting, running) ==
    [g \in DOMAIN tasks0 |->
        IF tasks0[g].pc \in waiting
        THEN Task(running[tasks0[g].pc], tasks0[g].obj)
        ELSE tasks0[g]]

\* can_get.set() and can_put.set(): the greenlets they wake
notify_get(tasks0) ==
    notify(tasks0, {"get_wait", "get_all_wait"},
           [get_wait |-> "get_run", get_all_wait |-> "get_all_run"])
notify_put(tasks0) == notify(tasks0, {"put_wait"}, [put_wait |-> "put_run"])

\* Queue.__init__, and the greenlets using the queue
QueueInit(n) ==
    /\ qdata = <<>>
    /\ maxlen = n
    /\ can_put = FALSE
    /\ can_get = FALSE
    /\ tasks = [g \in Greenlets |-> Task("idle", None)]

\* Queue.put from the test of its while loop, up to its return or to
\* can_put.wait(); the wait always blocks, the flag having just been cleared
put(g, obj) ==
    /\ IF full(qdata, maxlen)
       THEN /\ can_put' = FALSE
            /\ tasks' = [tasks EXCEPT ![g] = Task("put_wait", obj)]
            /\ UNCHANGED <<qdata, can_get>>
       ELSE /\ qdata' = Append(qdata, obj)
            /\ can_get' = TRUE
            /\ tasks' = notify_get([tasks EXCEPT ![g] = Task("idle", None)])
            /\ UNCHANGED can_put
    /\ UNCHANGED maxlen
    /\ UNCHANGED <<lirsVars, lruVars, lockVars, registryVars>>

\* Queue._wait_get from the test of its while loop: whether it returns
\* (otherwise it is in can_get.wait(), the flag having just been cleared)
wait_get_returns == qdata # <<>>

\* Queue.get from the test of the loop of _wait_get, up to its return or to
\* can_get.wait()
get(g) ==
    /\ IF wait_get_returns
       THEN /\ qdata' = Tail(qdata)
            /\ can_put' = TRUE
            /\ tasks' = notify_put([tasks EXCEPT ![g] = Task("idle", None)])
            /\ UNCHANGED can_get
       ELSE /\ can_get' = FALSE
            /\ tasks' = [tasks EXCEPT ![g] = Task("get_wait", None)]
            /\ UNCHANGED <<qdata, can_put>>
    /\ UNCHANGED maxlen
    /\ UNCHANGED <<lirsVars, lruVars, lockVars, registryVars>>

\* Queue.get_all from the test of the loop of _wait_get, up to its return
\* or to can_get.wait()
get_all(g) ==
    /\ IF wait_get_returns
       THEN /\ qdata' = <<>>
            /\ tasks' = [tasks EXCEPT ![g] = Task("idle", None)]
            /\ UNCHANGED can_get
       ELSE /\ can_get' = FALSE
            /\ tasks' = [tasks EXCEPT ![g] = Task("get_all_wait", None)]
            /\ UNCHANGED qdata
    /\ UNCHANGED <<maxlen, can_put>>
    /\ UNCHANGED <<lirsVars, lruVars, lockVars, registryVars>>

\* Queue.put called by greenlet g
QueuePut(g, obj) == tasks[g].pc = "idle" /\ put(g, obj)

\* Queue.put resumed in greenlet g from can_put.wait()
QueuePutResume(g) == tasks[g].pc = "put_run" /\ put(g, tasks[g].obj)

\* Queue.get called by greenlet g
QueueGet(g) == tasks[g].pc = "idle" /\ get(g)

\* Queue.get resumed in greenlet g from can_get.wait()
QueueGetResume(g) == tasks[g].pc = "get_run" /\ get(g)

\* Queue.get_all called by greenlet g
QueueGetAll(g) == tasks[g].pc = "idle" /\ get_all(g)

\* Queue.get_all resumed in greenlet g from can_get.wait()
QueueGetAllResume(g) == tasks[g].pc = "get_all_run" /\ get_all(g)

\* Queue.clear called by greenlet g
QueueClear(g) ==
    /\ tasks[g].pc = "idle"
    /\ qdata' = <<>>
    /\ can_get' = FALSE
    /\ can_put' = TRUE
    /\ tasks' = notify_put(tasks)
    /\ UNCHANGED maxlen
    /\ UNCHANGED <<lirsVars, lruVars, lockVars, registryVars>>

\* gevent.Timeout raised in greenlet g inside can_put.wait() or
\* can_get.wait(): the call is left, nothing is put or taken
QueueTimeout(g) ==
    /\ tasks[g].pc \in {"put_wait", "get_wait", "get_all_wait"}
    /\ tasks' = [tasks EXCEPT ![g] = Task("idle", None)]
    /\ UNCHANGED <<qdata, maxlen, can_put, can_get>>
    /\ UNCHANGED <<lirsVars, lruVars, lockVars, registryVars>>

\* ---------------------------------------- the Queue under any greenlets
InitQueue ==
    /\ \E n \in 0..MaxMaxLen : QueueInit(n)
    /\ NoLock
    /\ NoRegistry
    /\ CacheInit(0, 0)
    /\ step = None
    /\ NoLru

NextQueue ==
    \E g \in Greenlets :
        \/ \E obj \in QueueObjs : QueuePut(g, obj)
        \/ QueuePutResume(g)
        \/ QueueGet(g)
        \/ QueueGetResume(g)
        \/ QueueGetAll(g)
        \/ QueueGetAllResume(g)
        \/ QueueClear(g)
        \/ QueueTimeout(g)

SpecQueue == InitQueue /\ [][NextQueue]_vars

\* ============================================================== Registry
\* A from-type is a number: type t > 1 derives from type t - 1, type 1
\* derives from object, which is 0.  The to-type is one class.  A style is
\* the sequence of its dot-separated parts: "" is <<>>, "1.2" is <<1, 2>>.
FromTypes == 1..NumTypes
ToTypes == {"To"}
Styles == {[i \in 1..n |-> i] : n \in 0..MaxStyleParts}
Adapters == 1..NumAdapters
RegKeys == FromTypes \X ToTypes \X Styles

\* what a call returned, or that it raised ValueError
RegOutcome(ret, raise) == [ret |-> ret, raised |-> raise]

\* inspect.getmro(from_type): the type, its bases nearest first, object
getmro(from_type) == [i \in 1..(from_type + 1) |-> from_type + 1 - i]

\* style.rsplit(".", 1)[0]
rsplit(style) ==
    IF Len(style) > 1 THEN SubSeq(style, 1, Len(style) - 1) ELSE style

\* the rest of iter_style's loop, entered with last_style and style
RECURSIVE iter_style_from(_, _)
iter_style_from(last_style, style) ==
    IF last_style = style THEN << <<>> >>
    ELSE <<style>> \o iter_style_from(style, rsplit(style))

\* iter_style(style): the styles it yields, in order (last_style starts as
\* None, so the loop is entered at least once)
iter_style(style) == <<style>> \o iter_style_from(style, rsplit(style))

\* the search of Registry.get over `registered`: the styles of iter_style
\* in the outer loop, the bases in the inner one; the first adapter found,
\* _THROW_EXCEPTION when there is none
infer(registered0, from_type, to_type, style) ==
    LET styles == iter_style(style)
        bases == getmro(from_type)
        hits == {p \in (1..Len(styles)) \X (1..Len(bases)) :
                    <<bases[p[2]], to_type, styles[p[1]]>> \in DOMAIN registered0}
    IN  IF hits = {} THEN THROW_EXCEPTION
        ELSE LET first == CHOOSE p \in hits :
                              \A r \in hits :
                                  \/ p[1] < r[1]
                                  \/ p[1] = r[1] /\ p[2] <= r[2]
             IN  registered0[<<bases[first[2]], to_type, styles[first[1]]>>]

\* return_default() of Registry.get
return_default(default) ==
    IF default # THROW_EXCEPTION THEN RegOutcome(default, FALSE)
    ELSE RegOutcome(None, TRUE)

\* what Registry.get returns for the value v it found or inferred
found_or_default(v, default) ==
    IF v = THROW_EXCEPTION THEN return_default(default)
    ELSE RegOutcome(v, FALSE)

\* Registry.register(from_type, to_type, style, value, replace)
RegistryRegister(from_type, to_type, style, value, replace) ==
    LET key == <<from_type, to_type, style>> IN
    /\ IF ~replace /\ DictGet(values, key, THROW_EXCEPTION) # THROW_EXCEPTION
       THEN /\ result' = RegOutcome(None, TRUE)
            /\ UNCHANGED <<values, registered>>
       ELSE /\ values' = DictSet(values, key, value)
            /\ registered' = DictSet(registered, key, value)
            /\ result' = RegOutcome(None, FALSE)
    /\ UNCHANGED <<lirsVars, lruVars, lockVars, queueVars>>

\* Registry.get(from_type, to_type, style, default)
RegistryGet(from_type, to_type, style, default) ==
    LET key == <<from_type, to_type, style>> IN
    /\ IF key \in DOMAIN values
       THEN /\ result' = found_or_default(values[key], default)
            /\ UNCHANGED <<values, registered>>
       ELSE LET v == infer(registered, from_type, to_type, style) IN
            /\ values' = DictSet(values, key, v)
            /\ result' = found_or_default(v, default)
            /\ UNCHANGED registered
    /\ UNCHANGED <<lirsVars, lruVars, lockVars, queueVars>>

\* ------------------------------------------ the Registry under any calls
InitRegistry ==
    /\ NoRegistry
    /\ NoLock
    /\ NoQueue
    /\ CacheInit(0, 0)
    /\ step = None
    /\ NoLru

NextRegistry ==
    \E key \in RegKeys :
        \/ \E value \in Adapters, replace \in BOOLEAN :
               RegistryRegister(key[1], key[2], key[3], value, replace)
        \/ \E default \in {THROW_EXCEPTION, 42} :
               RegistryGet(key[1], key[2], key[3], default)

SpecRegistry == InitRegistry /\ [][NextRegistry]_vars

\* ================================================================ claims
LirKeys(s0) == {s0[i].key : i \in {j \in 1..Len(s0) : s0[j].status = LIR}}
HeadIsLir(s0) == s0 = <<>> \/ Head(s0).status = LIR

\* C1 (invariant I1): after every hit, remove or prune call on a LIRSStack
\* that started empty, whatever the capacities, S is empty or the head
\* (oldest) entry of S has status LIR.
C1_HeadOfSIsLir == gen = "none" => HeadIsLir(s)

\* C2 (invariant I2, residency of Q): after every LIRSCache operation,
\* whatever the capacities, every key in Q is a key of the storage map.
C2_QIsResident == QKeys(q) \subseteq DOMAIN data

\* C3 (storage/residency equivalence): after every LIRSCache operation the
\* keys in storage are exactly the keys with LIR status in S together with
\* the keys in Q.
C3_StoredIffResident == DOMAIN data = LirKeys(s) \cup QKeys(q)

\* C4 (resident-HIR cap): whenever hirs_capacity > 0, after every hit, remove
\* or evict step Q holds at most hirs_capacity keys.
C4_QWithinCap == hirs > 0 => Len(q) <= hirs

\* C4 witness: a hit has displaced a key from a Q that stands at its cap.
C4_Witness == lirs >= 1 /\ hirs >= 2 /\ Len(q) = hirs /\ last.evicted # None

\* C5 (round trip): a key that was set and since then neither evicted by a
\* hit, nor deleted or popped, nor cleared away is contained in the cache, and
\* get(key) returns the value most recently set for it.
C5_RoundTrip ==
    \A k \in DOMAIN lastSet :
        /\ k \in DOMAIN data
        /\ GetReturn(k, None) = lastSet[k]

\* C5 witness: a key holds its second, different value after another key was
\* evicted by a hit.
C5_Witness ==
    /\ lirs >= 1
    /\ last.evicted # None
    /\ \E k \in DOMAIN lastSet : lastSet[k] = 2 /\ GetReturn(k, None) = 2
    /\ \E k \in DOMAIN lastSet : lastSet[k] = 1

\* C6 (reference trace): with lirs_capacity 3 and hirs_capacity 2, setting
\* 8,4,1,8,4,9,6,1,2,3,5 leaves exactly {1,3,4,5,8} stored, S =
\* [8:LIR,4:LIR,9:HIR,6:HIR,1:LIR,2:HIR,3:HIR,5:HIR] and Q = [3,5]; reading
\* 4, 8, 3, 5 and then setting 7 evicts 1, setting 9 then evicts 5, setting 5
\* then evicts 7.
C6_ReferenceTrace ==
    /\ step = 11 =>
          /\ DOMAIN data = {1, 3, 4, 5, 8}
          /\ s = <<Entry(8, LIR), Entry(4, LIR), Entry(9, HIR), Entry(6, HIR),
                   Entry(1, LIR), Entry(2, HIR), Entry(3, HIR), Entry(5, HIR)>>
          /\ q = <<3, 5>>
    /\ step = 16 => last.evicted = 1 /\ 1 \notin DOMAIN data
    /\ step = 17 => last.evicted = 5 /\ 5 \notin DOMAIN data
    /\ step = 18 => last.evicted = 7 /\ 7 \notin DOMAIN data

\* C6 witness: the whole script has run.
C6_Witness == step = Len(Script) /\ last.evicted = 7

\* C7 (at most one eviction per access): a key returned by hit was the head
\* of Q just before the call, and a single LIRSCache set or get takes at most
\* one key, the returned one, out of storage.
C7_OneEvictionPerAccess ==
    [][(DoSet \/ DoGet \/ DoGetItem) =>
          /\ last'.evicted # None => (q # <<>> /\ last'.evicted = Head(q))
          /\ Cardinality(DOMAIN data \ DOMAIN data') <= 1
          /\ (DOMAIN data \ DOMAIN data') \subseteq {last'.evicted}]_vars

\* C7 witness: an access has evicted the oldest of two resident HIR keys; the
\* evicted key has left storage and Q is again two keys long.
C7_Witness ==
    /\ lirs >= 1
    /\ hirs = 2
    /\ Len(q) = 2
    /\ last.evicted # None
    /\ last.evicted \notin DOMAIN data

\* The sum of sizeof(value) over the entries of _d.
RECURSIVE SumOfSizes(_, _)
SumOfSizes(szof, d0) ==
    IF d0 = <<>> THEN 0 ELSE szof[Head(d0).value] + SumOfSizes(szof, Tail(d0))

\* The (key, value) entries stored in _d.
Stored(d0) == {<<d0[i].key, d0[i].value>> : i \in 1..Len(d0)}

\* How many times the removal callback was called with entry e.
Calls(log, e) == Cardinality({i \in 1..Len(log) : log[i] = e})

\* C8 (LRU size accounting): after every LRUCache set, get, delete and
\* clear, the cache's size is the sum of sizeof(value) over the stored entries.
C8_SizeIsSumOfSizes == size = SumOfSizes(sizeof, d)

\* C8 witness: one set has made _prune evict two entries and the cache still
\* holds entries of non-zero size.
C8_Witness ==
    /\ Len(removed) >= 2
    /\ d # <<>>
    /\ size > 0

\* C9 (LRU rejection): set(key, value) with sizeof(value) >= max_size leaves
\* the stored entries, their order and the total size as they were, also when
\* the key is already stored.
C9_RejectionChangesNothing ==
    [][\A k \in ValueKeys, v \in LruValues :
          (LruSetItem(k, v) /\ sizeof[v] >= max_size) =>
              (d' = d /\ size' = size)]_vars

\* C10 (LRU removal callback): every entry that stops being stored, by
\* delete, by clear, by size-driven eviction or by being dropped inside set,
\* is handed to the removal callback exactly once.
C10_CallbackOnEveryRemoval ==
    [][\A e \in Stored(d) \ Stored(d') : Calls(removed', e) = 1]_vars

\* the smaller of two numbers
Min(a, b) == IF a <= b THEN a ELSE b

\* C11 (LRU floor guarantee): size-driven pruning never removes an entry when
\* the cache holds min_count or fewer entries; after any set the entry count
\* is at least min(min_count, entry count just before pruning), even when the
\* total size still exceeds max_size.  Put the other way round: a set that
\* leaves fewer than min_count entries has pruned nothing and leaves as many
\* entries as there were just before pruning.
C11_FloorGuarantee ==
    [][\A k \in ValueKeys, v \in LruValues :
          (Len(d') < min_count /\ LruSetItem(k, v)) =>
              LET kept == Len(DDel(d, k))
                  before == IF sizeof[v] < max_size THEN kept + 1 ELSE kept
              IN  /\ removed' = <<>>
                  /\ Len(d') >= Min(min_count, before)]_vars

\* C11 witness: a set has pruned down to the floor of two entries and stopped
\* there although the total size still exceeds max_size.
C11_Witness ==
    /\ min_count >= 2
    /\ removed # <<>>
    /\ Len(d) = min_count
    /\ size > max_size

\* the keys of _d in iteration order
KeySeq(d0) == [i \in 1..Len(d0) |-> d0[i].key]

\* the keys the running workload calls the LRUCache with
LruWorkloadKeys == IF step = None THEN ValueKeys ELSE RefLruKeys

\* C12 (LRU eviction order): each entry removed by size-driven pruning is the
\* stored entry whose most recent set or read (item lookup) is the oldest, and
\* iteration follows recency; with max_size 10, min_count 10 and unit sizes,
\* after setting keys 0..9, re-setting key 1 and setting key 10, key 0 is
\* evicted and iteration yields 2,3,4,5,6,7,8,9,1,10.
C12_EvictsLeastRecentlyUsed ==
    [][/\ KeySeq(d') = recent'
       /\ \A k \in LruWorkloadKeys, v \in DOMAIN sizeof :
              (removed' # <<>> /\ LruSetItem(k, v)) =>
                  \A i \in 1..Len(removed') :
                      removed'[i][1] = Touch(recent, k)[i]
       /\ (OnLruScript /\ step' = 12) =>
              /\ removed' = <<<<0, 0>>>>
              /\ KeySeq(d') = <<2, 3, 4, 5, 6, 7, 8, 9, 1, 10>>]_vars

\* C12 witness: the reference scenario has set key 10, which evicted key 0,
\* the key whose last use was the oldest, and kept the re-set key 1.
C12_Witness ==
    /\ step = 12
    /\ max_size = RefMaxSize
    /\ removed = <<<<0, 0>>>>
    /\ Len(d) = 10
    /\ d[9] = Item(1, 100)

\* C13 (LRU admission bound): in every reachable LRUCache state every stored
\* value v satisfies sizeof(v) < max_size; a value with sizeof(v) >= max_size
\* is never stored.
C13_StoredBelowMaxSize ==
    \A i \in 1..Len(d) : sizeof[d[i].value] < max_size

\* C13 witness: a value one below max_size is stored next to another entry,
\* under a sizeof that gives some value of the workload the size max_size.
C13_Witness ==
    /\ Len(d) >= 2
    /\ \E i \in 1..Len(d) : sizeof[d[i].value] = max_size - 1
    /\ \E v \in DOMAIN sizeof : sizeof[v] = max_size

\* C14 (partial consumption of evict): from any reachable stack state and for
\* any n, the n keys taken from one evict() generator that is then abandoned,
\* followed by the keys of a fresh evict() run to its end, are the key
\* sequence of a single evict() run to its end from the same state.
C14_PartialConsumption ==
    \A n \in 0..(Len(s) + Len(q) + 1) :
        LET t == Take(n, s, q)
        IN  t.keys \o Exhaust(t.s, t.q).keys = Exhaust(s, q).keys

\* C14 witness: two keys can be taken, the first from Q and the second from
\* S, with a key still to come and a non-resident HIR entry in S.
C14_Witness ==
    /\ Len(q) = 1
    /\ Len(Take(2, s, q).keys) = 2
    /\ Len(Exhaust(s, q).keys) >= 3
    /\ \E i \in 1..Len(s) : s[i].status = HIR /\ s[i].key \notin QKeys(q)

\* the keys of the LIR entries of S, in S order
LirSeq(s0) ==
    LET l == SelectSeq(s0, LAMBDA e : e.status = LIR)
    IN  [i \in 1..Len(l) |-> l[i].key]

\* C15 (exhausting evict): from any reachable stack state a generator run to
\* its end terminates, yields first every key of Q in head-to-tail order and
\* then every LIR-status key of S in S order, yields each key once and never
\* a non-resident HIR key, and leaves both S and Q empty.
C15_ExhaustingEvict ==
    LET r == Exhaust(s, q)
    IN  /\ r.keys = q \o LirSeq(s)
        /\ \A i, j \in 1..Len(r.keys) : r.keys[i] = r.keys[j] => i = j
        /\ \A i \in 1..Len(s) :
               (s[i].status = HIR /\ s[i].key \notin QKeys(q)) =>
                   \A j \in 1..Len(r.keys) : r.keys[j] # s[i].key
        /\ r.s = <<>>
        /\ r.q = <<>>

\* C15 witness: Q holds two keys and S holds a LIR entry behind a resident
\* and before a non-resident HIR entry, so that three keys are yielded.
C15_Witness ==
    /\ Len(q) = 2
    /\ Len(Exhaust(s, q).keys) = 3
    /\ \E i, j \in 1..Len(s) :
           /\ i < j
           /\ s[i].status = LIR
           /\ s[j].status = HIR
           /\ s[j].key \notin QKeys(q)

\* C16 (next_to_evict): next_to_evict() leaves S, Q and storage unchanged; it
\* returns the head of Q when Q is non-empty, otherwise the head of S when S
\* is non-empty, and raises an error when both S and Q are empty.
C16_NextToEvict ==
    [][DoNextToEvict =>
          /\ UNCHANGED <<s, q, data>>
          /\ q # <<>> => last' = Outcome(Head(q), FALSE)
          /\ (q = <<>> /\ s # <<>>) => last' = Outcome(Head(s).key, FALSE)
          /\ (q = <<>> /\ s = <<>>) => last'.raised]_vars

\* C16 witness: with Q empty and two entries in S, the call has returned the
\* head of S (a hit that evicts leaves a key in Q, so this was the peek).
C16_Witness ==
    /\ q = <<>>
    /\ Len(s) >= 2
    /\ last = Outcome(Head(s).key, FALSE)

\* C17 (delete purges the policy state): after delete(key) for a key absent
\* from storage (for instance a non-resident HIR key still tracked in S), key
\* is in neither S nor Q.
C17_DeletePurgesPolicyState ==
    [][\A k \in Keys :
          (DelItem(k) /\ k \notin DOMAIN data) =>
              (k \notin SKeys(s') /\ k \notin QKeys(q'))]_vars

\* C18 (pop): pop(key, default) never raises; it returns the stored value
\* when key is resident and default otherwise, and afterwards key is in none
\* of storage, S and Q.
C18_PopPurgesAndReturns ==
    [][\A k \in ValueKeys :
          Pop(k) =>
              /\ ~last'.raised
              /\ \A default \in Values \cup {None} :
                     PopReturn(k, default) =
                         IF k \in DOMAIN data THEN data[k] ELSE default
              /\ k \in DOMAIN lastSet => PopReturn(k, None) = lastSet[k]
              /\ k \notin DOMAIN data'
              /\ k \notin SKeys(s')
              /\ k \notin QKeys(q')]_vars

\* C18 witness: a resident HIR key holding the value 2 and a non-resident HIR
\* key are both tracked in S; pop returns 2 for the first and the default for
\* the second.
C18_Witness ==
    /\ \E k \in QKeys(q) \cap SKeys(s) : PopReturn(k, None) = 2
    /\ \E k \in SKeys(s) \ DOMAIN data : PopReturn(k, 1) = 1
    /\ lirs >= 1

\* the keys of S in S order
SKeySeq(s0) == [i \in 1..Len(s0) |-> s0[i].key]

\* a is what is left of b after some entries were taken off its head
IsSuffix(a, b) == \E n \in 0..Len(b) : a = SubSeq(b, n + 1, Len(b))

\* remove(key) is called for a key with LIR status while Q is non-empty
RemovesLirWithQ(k) == StackRemove(k) /\ SGet(s, k) = LIR /\ q # <<>>

\* C19 as stated: remove(key) of a key with LIR status while Q is non-empty
\* pops the head of Q and inserts that key at the tail (most-recent end) of S
\* with LIR status, then prunes, so the number of LIR entries is unchanged by
\* the removal.
C19_PromotedToTail ==
    [][\A k \in Keys :
          RemovesLirWithQ(k) =>
              /\ q' = QDel(Tail(q), k)
              /\ s' # <<>>
              /\ s'[Len(s')] = Entry(Head(q), LIR)
              /\ HeadIsLir(s')
              /\ Cardinality(LirKeys(s')) = Cardinality(LirKeys(s))]_vars

\* C19 amended: remove(key) of a key with LIR status while Q is non-empty
\* pops the head of Q and gives that key LIR status in S, at the position it
\* already has when it is still in S and at the tail only when it is not;
\* then it prunes, so the other entries keep their order and status and the
\* number of LIR entries is unchanged by the removal.
C19_PromotedInPlace ==
    [][\A k \in Keys :
          RemovesLirWithQ(k) =>
              /\ q' = QDel(Tail(q), k)
              /\ SGet(s', Head(q)) = LIR
              /\ IF Head(q) \in SKeys(s)
                 THEN IsSuffix(SKeySeq(s'), SKeySeq(SDel(s, k)))
                 ELSE IsSuffix(SKeySeq(s'), Append(SKeySeq(SDel(s, k)), Head(q)))
              /\ \A x \in SKeys(s') \ {Head(q)} : SGet(s', x) = SGet(s, x)
              /\ HeadIsLir(s')
              /\ Cardinality(LirKeys(s')) = Cardinality(LirKeys(s))]_vars

\* C19 witness: a LIR key can be removed while the head of Q sits in S before
\* another entry; after the removal it has LIR status and is not the tail.
C19_Witness ==
    \E k \in LirKeys(s) :
        /\ q # <<>>
        /\ Head(q) \in SKeys(s)
        /\ LET r == remove(s, q, k)
           IN  /\ SGet(r.s, Head(q)) = LIR
               /\ r.s[Len(r.s)].key # Head(q)
               /\ Len(r.s) < Len(s) - 1

\* C20 (remove with Q empty): remove(key) of a key with LIR status while Q is
\* empty deletes every HIR-status entry from S, so that afterwards S contains
\* only LIR entries (in their previous relative order) and Q is still empty.
C20_PurgesHirWhenQEmpty ==
    [][\A k \in Keys :
          (StackRemove(k) /\ SGet(s, k) = LIR /\ q = <<>>) =>
              /\ \A i \in 1..Len(s') : s'[i].status = LIR
              /\ SKeySeq(s') = LirSeq(SDel(s, k))
              /\ q' = <<>>]_vars

\* C20 witness: with Q empty, a LIR key can be removed while another LIR
\* entry stands before a HIR entry of S; the removal leaves only the LIR entry.
C20_Witness ==
    /\ q = <<>>
    /\ \E k \in LirKeys(s) :
           /\ \E i, j \in 1..Len(s) :
                  /\ i < j
                  /\ s[i].status = LIR
                  /\ s[i].key # k
                  /\ s[j].status = HIR
           /\ Len(remove(s, q, k).s) = Cardinality(LirKeys(s)) - 1

\* C21 (hirs_capacity = 0 disables the cap): with hirs_capacity = 0, for any
\* lirs_capacity, hit never returns an evicted key, so no LIRSCache set or get
\* ever removes a key from storage.
C21_NoCapNoEviction ==
    [][(hirs = 0 /\ (DoSet \/ DoGet \/ DoGetItem)) =>
          /\ last'.evicted = None
          /\ DOMAIN data \subseteq DOMAIN data']_vars

\* C21 witness: without a cap Q has grown to three resident HIR keys next to
\* a LIR key and every key that was set is still stored.
C21_Witness ==
    /\ hirs = 0
    /\ lirs >= 1
    /\ Len(q) >= 3
    /\ LirKeys(s) # {}
    /\ DOMAIN data = Keys

\* C22 (LRU absent key): a lookup or a delete of a key that is not stored
\* fails with a key-not-found error, leaves the stored entries, their order
\* and the total size unchanged and invokes no removal callback.
C22_AbsentKeyFailsCleanly ==
    [][\A k \in ValueKeys :
          (k \notin DKeys(d) /\ (LruGetItem(k) \/ LruDelItem(k))) =>
              /\ raised'
              /\ d' = d
              /\ size' = size
              /\ removed' = <<>>]_vars

\* C22 witness: the last call raised key-not-found on a cache that holds two
\* entries of non-zero total size.
C22_Witness ==
    /\ raised
    /\ Len(d) >= 2
    /\ size > 0

\* C23 (read-only LIRS operations): get(key, default) for a key not in
\* storage returns default, and it, membership tests, len and iteration
\* leave S, Q and storage unchanged.
C23_ReadsHaveNoPolicyEffect ==
    [][/\ \A k \in Keys :
              (k \notin DOMAIN data /\ Get(k, None)) =>
                  /\ UNCHANGED <<s, q, data>>
                  /\ ~last'.raised
                  /\ \A default \in Values \cup {None} :
                         GetReturn(k, default) = default
       /\ (DoContains \/ DoLength \/ DoIterate) =>
              UNCHANGED <<s, q, data>>]_vars

\* C23 witness: a key that is not stored is still tracked in S as a
\* non-resident HIR entry, next to resident keys; the membership test says no
\* and get returns the default for it.
C23_Witness ==
    /\ lirs >= 1
    /\ q # <<>>
    /\ LenReturn >= 2
    /\ \E k \in SKeys(s) \ DOMAIN data :
           /\ ~ContainsReturn(k)
           /\ GetReturn(k, 2) = 2

\* The entry that hit's "status == 1" branch pops from the head of S to
\* demote it into Q: key has been re-inserted at the tail with LIR status.
Demoted(s0, key) == Head(SSet(SDel(s0, key), key, LIR))

\* C28 (demotion is well-defined): in every reachable state, for every key
\* with HIR status in S, the entry a hit on that key pops from the head of S
\* has LIR status and is not the key being promoted.
C28_DemotionWellDefined ==
    \A k \in Keys :
        SGet(s, k) = HIR =>
            /\ Demoted(s, k).status = LIR
            /\ Demoted(s, k).key # k

\* C29 (a suspended evict generator): from any reachable stack state, after a
\* fresh evict() generator has yielded n keys and is suspended, or has
\* finished, S is empty or its head is LIR, and none of the keys it yielded
\* is in S or in Q.
C29_SuspendedEvictKeepsI1 ==
    \A n \in 1..(Len(s) + Len(q) + 1) :
        LET t == Take(n, s, q)
        IN  /\ HeadIsLir(t.s)
            /\ \A i \in 1..Len(t.keys) :
                   t.keys[i] \notin SKeys(t.s) \cup QKeys(t.q)

\* C30 (LIR population bound): for any capacities, after any sequence of hit
\* and remove calls on a stack that started empty, the number of entries of S
\* with LIR status is at most lirs_capacity.
C30_LirPopulationBound == Cardinality(LirKeys(s)) <= lirs

\* the greenlets inside a with block that locked id
Holders(id) ==
    {g \in DOMAIN lockers : lockers[g].pc = "holding" /\ id \in lockers[g].ids}

\* some id of greenlet g is held by a greenlet with another cause
Conflicts(g) ==
    \E id \in lockers[g].ids :
        \E h \in Holders(id) : lockers[h].cause # lockers[g].cause

\* C24 (MultiLock mutual exclusion): under any interleaving of greenlets
\* that acquire and later release their own ids, the holders of one id all
\* have the same cause; and a greenlet whose acquire names an id held under
\* another cause is not holding after the step, however many of that id's
\* holders have released.
C24_MutualExclusion ==
    [][/\ \A id \in LockIds :
              \A g, h \in Holders(id)' : lockers'[g].cause = lockers'[h].cause
       /\ \A g \in Greenlets :
              Conflicts(g) => lockers'[g].pc # "holding"]_vars

\* C24 witness: a greenlet that waited was woken by the release of one
\* holder of an id it wants, while another holder with that other cause
\* still holds the id.
C24_Witness ==
    \E g, h, k \in DOMAIN lockers :
        /\ lockers[g].pc = "notified"
        /\ lockers[h].pc = "holding"
        /\ lockers[k].pc = "done"
        /\ lockers[h].cause = lockers[k].cause
        /\ lockers[g].cause # lockers[h].cause
        /\ lockers[g].ids \cap lockers[h].ids \cap lockers[k].ids # {}

\* C25 (MultiLock compatibility): an acquire whose ids are each held by
\* nobody or only under the acquirer's cause completes in the same step,
\* without waiting, and every one of its ids is then locked under its cause
\* with one count per holder.
C25_Compatibility ==
    [][\A g \in Greenlets :
          (~Conflicts(g) /\ Acquire(g)) =>
              /\ lockers'[g].pc = "holding"
              /\ \A id \in lockers[g].ids :
                     /\ id \in DOMAIN locks'
                     /\ locks'[id].cause = lockers[g].cause
                     /\ locks'[id].count = Cardinality(Holders(id)')]_vars

\* C25 witness: two greenlets with one cause hold the same id while a
\* greenlet with another cause holds a different id.
C25_Witness ==
    \E g, h, k \in DOMAIN lockers :
        /\ g # h
        /\ lockers[g].pc = "holding"
        /\ lockers[h].pc = "holding"
        /\ lockers[k].pc = "holding"
        /\ lockers[g].cause = lockers[h].cause
        /\ lockers[g].ids \cap lockers[h].ids # {}
        /\ lockers[k].cause # lockers[g].cause
        /\ lockers[k].ids \cap (lockers[g].ids \cup lockers[h].ids) = {}

AllDone == \A g \in DOMAIN lockers : lockers[g].pc = "done"

\* C26 (MultiLock progress): when every greenlet acquires its ids once and
\* releases them after a finite hold, then in every schedule each greenlet
\* eventually holds its ids, all of them eventually finish, and whenever all
\* have finished the lock table is empty.
C26_Progress ==
    /\ \A g \in Greenlets : <>(lockers[g].pc = "holding")
    /\ <>AllDone
    /\ [](AllDone => locks = <<>>)

\* C26 witness: all have finished and at least one of them had to wait for
\* another: their causes differ and they share an id.
C26_Witness ==
    /\ lockers # <<>>
    /\ AllDone
    /\ locks = <<>>
    /\ \E g, h \in DOMAIN lockers :
           /\ lockers[g].cause # lockers[h].cause
           /\ lockers[g].ids \cap lockers[h].ids # {}

\* C27 (bounded Queue): under any interleaving of greenlets that put and
\* get, the queue never holds more than maxlen items; a put that finds
\* maxlen or more items blocks and appends nothing, and an item is appended
\* only when fewer than maxlen items are queued; a get that finds no item
\* blocks and takes nothing, and a greenlet blocked in get is only woken by
\* a step that appends an item.
C27_BoundedQueue ==
    [][/\ Len(qdata') <= maxlen'
       /\ Len(qdata') > Len(qdata) => Len(qdata) < maxlen
       /\ \A g \in Greenlets :
              /\ (/\ Len(qdata) >= maxlen
                  /\ \/ \E obj \in QueueObjs : QueuePut(g, obj)
                     \/ QueuePutResume(g)) =>
                     (tasks'[g].pc = "put_wait" /\ qdata' = qdata)
              /\ (/\ Len(qdata) = 0
                  /\ QueueGet(g) \/ QueueGetResume(g)) =>
                     (tasks'[g].pc = "get_wait" /\ qdata' = qdata)
              /\ (tasks[g].pc = "get_wait" /\ tasks'[g].pc = "get_run") =>
                     (/\ Len(qdata') = Len(qdata) + 1
                      /\ SubSeq(qdata', 1, Len(qdata)) = qdata)]_vars

\* C27 witness: one greenlet is blocked in put on a queue that holds maxlen
\* items, while a greenlet that was blocked in get has been woken by a put.
C27_Witness ==
    \E g, h \in DOMAIN tasks :
        /\ tasks[g].pc = "put_wait"
        /\ tasks[h].pc = "get_run"
        /\ maxlen >= 1
        /\ Len(qdata) = maxlen

\* C31 (bounded residency): whenever hirs_capacity > 0, after any sequence
\* of LIRSCache operations the number of stored keys is at most
\* lirs_capacity + hirs_capacity.
C31_BoundedResidency == hirs > 0 => LenReturn <= lirs + hirs

\* C32 (an access to a stored key never evicts): whenever key is in storage,
\* the hit made by get, by item lookup or by setting that key again returns
\* no evicted key; the call does not raise, the reads leave the set of stored
\* keys unchanged and the key itself stays stored.
C32_ResidentAccessNeverEvicts ==
    [][\A k \in DOMAIN data :
          /\ (Get(k, None) \/ GetItem(k) \/ Set(k, True)) =>
                 /\ last'.evicted = None
                 /\ ~last'.raised
                 /\ k \in DOMAIN data'
          /\ (Get(k, None) \/ GetItem(k)) => DOMAIN data' = DOMAIN data]_vars

\* C32 witness: a stored key is a resident HIR entry of S while Q is at its
\* cap; hitting it promotes it and demotes a LIR key into Q, evicting none.
C32_Witness ==
    \E k \in DOMAIN data :
        /\ hirs >= 1
        /\ Len(q) = hirs
        /\ k \in QKeys(q)
        /\ SGet(s, k) = HIR
        /\ hit(lirs, hirs, s, q, k).to_evict = None
        /\ k \notin QKeys(hit(lirs, hirs, s, q, k).q)
        /\ Len(hit(lirs, hirs, s, q, k).q) = hirs

\* C33 (LIR and resident-HIR roles are disjoint): in every reachable stack
\* state no key is both in Q and in S with LIR status.
C33_RolesDisjoint == QKeys(q) \cap LirKeys(s) = {}

\* C33 witness: Q holds two keys and a LIR key of S can be removed, which
\* promotes the first key of Q to LIR and takes it out of Q; a hit on the
\* second key of Q, a HIR entry of S, promotes it and takes it out of Q too.
C33_Witness ==
    /\ Len(q) = 2
    /\ SGet(s, q[2]) = HIR
    /\ q[2] \in LirKeys(hit(lirs, hirs, s, q, q[2]).s)
    /\ \E k \in LirKeys(s) :
           /\ Head(q) \in LirKeys(remove(s, q, k).s)
           /\ Head(q) \notin QKeys(remove(s, q, k).q)

\* C34 (LIR slots are filled before any HIR block exists): after any
\* sequence of LIRSCache operations, if fewer than lirs_capacity entries of S
\* have LIR status then Q is empty and S has no HIR entry, and a hit on any
\* key that is not in S admits it with LIR status.
C34_LirSlotsFilledFirst ==
    Cardinality(LirKeys(s)) < lirs =>
        /\ q = <<>>
        /\ \A i \in 1..Len(s) : s[i].status = LIR
        /\ \A k \in Keys \ SKeys(s) :
               SGet(hit(lirs, hirs, s, q, k).s, k) = LIR

\* C34 witness: S is at its LIR capacity, holds a HIR entry and Q is empty;
\* removing one of the LIR keys leaves fewer LIR entries than the capacity
\* and none of the HIR entries.
C34_Witness ==
    /\ Cardinality(LirKeys(s)) = lirs
    /\ q = <<>>
    /\ \E i \in 1..Len(s) : s[i].status = HIR
    /\ \E k \in LirKeys(s) :
           /\ Cardinality(LirKeys(remove(s, q, k).s)) < lirs
           /\ \A i \in 1..Len(remove(s, q, k).s) :
                  remove(s, q, k).s[i].status = LIR

\* C35 (next_to_evict of the cache): LIRSCache.next_to_evict() raises exactly
\* when the cache is empty (len 0); when the cache holds a key it returns a
\* stored key, the first key an evict() called right after would yield.
C35_NextToEvictIsStored ==
    [][DoNextToEvict =>
          /\ last'.raised <=> LenReturn = 0
          /\ LenReturn > 0 =>
                 /\ last'.evicted \in DOMAIN data
                 /\ last'.evicted = evict("q", s, q).key]_vars

\* C36 (LRU budget-or-floor invariant): with non-negative sizes, after every
\* LRUCache operation the total size is at most max_size or the number of
\* stored entries is at most min_count.
C36_BudgetOrFloor == size <= max_size \/ Len(d) <= min_count

\* C36 witness: a set has pruned and stopped at the floor with the total
\* size still over the budget.
C36_Witness ==
    /\ removed # <<>>
    /\ size > max_size
    /\ Len(d) = min_count
    /\ min_count >= 1

\* C37 (an accepted LRU insert survives its own pruning): for any state,
\* min_count and non-negative sizes, after set(key, value) with
\* sizeof(value) < max_size the key is stored with that value as the last,
\* most recently used entry, and is none of the entries pruned.
C37_InsertSurvivesPruning ==
    \A k \in ValueKeys, v \in LruValues :
        sizeof[v] < max_size =>
            LET r == LruSet(max_size, min_count, sizeof, d, size, k, v)
            IN  /\ r.d # <<>>
                /\ r.d[Len(r.d)] = Item(k, v)
                /\ \A i \in 1..Len(r.removed) : r.removed[i][1] # k

\* C37 witness: a set has pruned two entries and left one, the one it
\* inserted.
C37_Witness ==
    /\ Len(removed) = 2
    /\ Len(d) = 1
    /\ recent = <<d[1].key>>
    /\ sizeof[d[1].value] < max_size

\* C38 (inherited reads of the LRUCache): a membership test and the
\* defaulted get go through item lookup, so for a stored key they move that
\* key to the most recently used position as a read does, return True and
\* the stored value, and leave the total size and the stored entries as they
\* were.
C38_InheritedReadsTouch ==
    [][\A k \in DKeys(d) :
          (LruContains(k) \/ LruGet(k, None)) =>
              /\ d' = Append(DDel(d, k), Item(k, DValue(d, k)))
              /\ recent' = Touch(recent, k)
              /\ size' = size
              /\ removed' = <<>>
              /\ ~raised'
              /\ LruContainsReturn(k)
              /\ LruGetReturn(k, None) = DValue(d, k)]_vars

\* C38 witness: three keys are stored at the full budget and an inherited
\* read has something to move: the key set first is the oldest entry, and
\* the defaulted get returns its value, not the default.
C38_Witness ==
    /\ Len(d) = 3
    /\ size = max_size
    /\ d[1].key = 1
    /\ LruContainsReturn(1)
    /\ LruGetReturn(1, None) = 2

\* C39 (Queue producer progress): whichever of get, get_all and clear made
\* room, a producer blocked in put is woken: in no reachable state is a
\* greenlet waiting on can_put while the queue holds fewer than maxlen items
\* and another greenlet is waiting on can_get.
C39_NoStuckProducer ==
    ~ \E g, h \in DOMAIN tasks :
          /\ tasks[g].pc = "put_wait"
          /\ Len(qdata) < maxlen
          /\ tasks[h].pc \in {"get_wait", "get_all_wait"}

\* C40: the inference cache of the Registry is transparent.  Every get
\* returns, or raises, exactly as the search over the currently registered
\* adapters would (the exact key, else the first match over the style
\* prefixes and the base types), and a register without replace raises
\* exactly when that very key was registered before.
C40_CacheIsTransparent ==
    [][\A key \in RegKeys :
          /\ \A default \in {THROW_EXCEPTION, 42} :
                 RegistryGet(key[1], key[2], key[3], default) =>
                     result' = found_or_default(
                                   infer(registered, key[1], key[2], key[3]),
                                   default)
          /\ \A value \in Adapters :
                 RegistryRegister(key[1], key[2], key[3], value, FALSE) =>
                     (result'.raised <=> key \in DOMAIN registered)]_vars


====
